---- MODULE Spec2Model ----
(***************************************************************************)
(* Reportify / Insight360: the report filter of the single-page frontend,  *)
(* the export endpoints and the recurring schedule manager of the backend. *)
(* Strings that the code inspects character by character (filter text,     *)
(* email addresses) are sequences of one-character strings.                *)
(***************************************************************************)
EXTENDS Integers, Sequences, FiniteSets, Bags, TLC

VARIABLES
  reports,          \* frontend state: the list held by useState([])
  filters,          \* frontend state: {date, category, user, region}
  downloads,        \* files the frontend handed to doc.save
  exportResp,       \* the last answer of POST /api/export/excel or /pdf
  now,              \* the wall clock of the backend process
  salesData,        \* rows of the sales_data table
  scheduledReports, \* rows of the scheduled_reports table
  jobs,             \* node-schedule jobs armed in this process
  pending,          \* POST /api/schedule handlers awaiting the store insert
  firing,           \* per job: the position of its callback
  outbox,           \* the bag of mails the transport accepted
  lastResp,         \* the last answer of POST /api/schedule
  revision,         \* which revision of the backend is deployed
  table,            \* rows of the reports table
  apiResp,          \* the last request to the reports API and its outcome
  boots,            \* how many times the backend process was restarted
  browsers,         \* how many headless browsers of the backend are open
  client,           \* the page of part_005: its requests in flight
  doc               \* the jsPDF document exportPDF is drawing

vars == <<reports, filters, downloads, exportResp, now, salesData,
          scheduledReports, jobs, pending, firing, outbox, lastResp,
          revision, table, apiResp, boots, browsers, client, doc>>

frontendVars == <<reports, filters, downloads>>
apiVars == <<revision, table, apiResp, boots>>
serverVars == <<now, salesData, scheduledReports, jobs, pending, firing,
                outbox, lastResp, revision, table, apiResp, boots,
                browsers>>

-----------------------------------------------------------------------------
(* Bounds *)

MaxReports == 2
MaxStrLen == 2

-----------------------------------------------------------------------------
(* Revisions of the backend *)

\* The Insight360 backend: /api/data, the exports and /api/schedule.
Insight360 == "client/App.jsx"

\* The Reportify backends: the Express applications and the two serverless
\* handlers, each serving /api/reports, /api/schedule-report or both.
ReportifyRevisions ==
  {"part_000", "part_002", "part_003", "backend/index.js",
   "part_004 reports handler", "backend/index.js schedule-report handler"}

\* No request to the reports API was made yet.
NoRequest == [route |-> "none", seq |-> 0]

\* No document was saved yet: exportPDF makes a new jsPDF() on every call.
NoDoc == [saved |-> FALSE, pages |-> <<>>]

\* The page before it is mounted: no request was sent.
IdlePage == [fetch |-> [pc |-> "none", data |-> <<>>], posts |-> <<>>]

-----------------------------------------------------------------------------
(* Strings *)

Chars == {"N", "n", "o"}

StringsUpTo(n) == UNION {[1..k -> Chars] : k \in 0..n}

\* String.prototype.toLowerCase, on the alphabet above.
ToLowerCase(s) == [i \in 1..Len(s) |-> IF s[i] = "N" THEN "n" ELSE s[i]]

\* String.prototype.includes: t occurs in s as a contiguous run.
Includes(s, t) ==
  \E i \in 0..(Len(s) - Len(t)) : SubSeq(s, i + 1, i + Len(t)) = t

-----------------------------------------------------------------------------
(* Frontend: report records and filter criteria *)

Dates == {"2025-06-01", "2025-06-02"}
Categories == {"Sales", "HR"}

\* The records the backend can hand to the frontend.
Records ==
  { [date |-> "2025-06-01", category |-> "Sales",
     user |-> <<"N", "o">>, region |-> <<"N", "o">>],
    [date |-> "2025-06-01", category |-> "HR",
     user |-> <<"o", "n", "N">>, region |-> <<"N", "o">>],
    [date |-> "2025-06-02", category |-> "Sales",
     user |-> <<"n">>, region |-> <<"o", "n", "N">>] }

FilterNames == {"date", "category", "user", "region"}

\* What an input of the filter bar can hold next; "" and <<>> are the empty
\* input.  The date picker and the category select offer their options, the
\* two text inputs change by one keystroke.
FilterValues(name, current) ==
  CASE name = "date" -> {"", "2025-06-01"}
    [] name = "category" -> {"", "Sales"}
    [] OTHER ->
         {Append(current, c) : c \in IF Len(current) < MaxStrLen
                                       THEN Chars ELSE {}}
         \cup (IF current = <<>> THEN {}
                ELSE {SubSeq(current, 1, Len(current) - 1)})

\* JavaScript truthiness of a string: the empty string is falsy.  Truthy is
\* for a string held as a TLA+ string, TruthyText for one held as characters.
Truthy(v) == v # ""
TruthyText(s) == s # <<>>

EmptyFilters == [date |-> "", category |-> "", user |-> <<>>, region |-> <<>>]

\* The predicate handed to reports.filter.
MatchesBroken(report, f) ==
  /\ (IF Truthy(f.date) THEN report.date = f.date ELSE TRUE)
  /\ (IF Truthy(f.category) THEN report.category = f.category ELSE TRUE)
  /\ (IF TruthyText(f.user) THEN Includes(report.user, f.user) ELSE TRUE)
  /\ (IF TruthyText(f.region) THEN Includes(report.region, f.region) ELSE TRUE)

Matches(report, f) ==
  /\ (IF Truthy(f.date) THEN report.date = f.date ELSE TRUE)
  /\ (IF Truthy(f.category) THEN report.category = f.category ELSE TRUE)
  /\ (IF TruthyText(f.user)
        THEN Includes(ToLowerCase(report.user), ToLowerCase(f.user))
        ELSE TRUE)
  /\ (IF TruthyText(f.region)
        THEN Includes(ToLowerCase(report.region), ToLowerCase(f.region))
        ELSE TRUE)

\* Array.prototype.filter: the elements that satisfy the predicate, in order.
RECURSIVE ArrayFilter(_, _)
ArrayFilter(list, f) ==
  IF list = <<>> THEN <<>>
  ELSE IF Matches(Head(list), f)
         THEN <<Head(list)>> \o ArrayFilter(Tail(list), f)
         ELSE ArrayFilter(Tail(list), f)

\* A filter that collects its matches in reverse order.
RECURSIVE FilterReversed(_, _)
FilterReversed(list, f) ==
  IF list = <<>> THEN <<>>
  ELSE IF Matches(Head(list), f)
         THEN FilterReversed(Tail(list), f) \o <<Head(list)>>
         ELSE FilterReversed(Tail(list), f)

\* A filter whose loop starts one element late.
FilterSkipsFirst(list, f) ==
  IF list = <<>> THEN <<>> ELSE ArrayFilter(Tail(list), f)

FilterReports(list, f) == ArrayFilter(list, f)

filteredReports == FilterReports(reports, filters)

-----------------------------------------------------------------------------
(* Frontend actions *)

\* addReport: setReports([...reports, response.data]).
AddReport(r) ==
  /\ Len(reports) < MaxReports
  /\ Truthy(r.date) /\ Truthy(r.category)
  /\ TruthyText(r.user) /\ TruthyText(r.region)
  /\ reports' = Append(reports, r)
  /\ UNCHANGED <<filters, downloads, exportResp, client, doc>>
  /\ UNCHANGED serverVars

\* handleFilterChange: setFilters({...filters, [name]: value}).
HandleFilterChange(name, value) ==
  /\ filters' = [filters EXCEPT ![name] = value]
  /\ UNCHANGED <<reports, downloads, exportResp, client, doc>>
  /\ UNCHANGED serverVars

ReportLists == UNION {[1..k -> Records] : k \in 0..MaxReports}

\* The frontend once mounted: fetchReports has stored the list the backend
\* answered, the filter bar is empty, nothing was exported.  The backend has
\* just started.
InitFilter ==
  /\ reports \in ReportLists
  /\ filters = EmptyFilters
  /\ downloads = 0
  /\ exportResp = [route |-> "none"]
  /\ now = 0
  /\ salesData = <<>>
  /\ scheduledReports = <<>>
  /\ jobs = <<>>
  /\ pending = {}
  /\ firing = <<>>
  /\ outbox = EmptyBag
  /\ lastResp = [status |-> 0]
  /\ revision = Insight360
  /\ table = <<>>
  /\ apiResp = NoRequest
  /\ boots = 0
  /\ browsers = 0
  /\ client = IdlePage
  /\ doc = NoDoc

NextFilter ==
  \/ \E r \in Records : AddReport(r)
  \/ \E name \in FilterNames : \E value \in FilterValues(name, filters[name]) :
       HandleFilterChange(name, value)

SpecFilter == InitFilter /\ [][NextFilter]_vars

-----------------------------------------------------------------------------
(* Backend: the recurring schedule manager, POST /api/schedule *)

MaxTime == 3
MaxJobs == 1
MaxRows == 2

\* req.body.email; <<>> is a missing or empty email.
ValidEmail == <<"a", "@", "b", ".", "c">>
NotAnEmail == <<"n", "o", "t", "-", "a", "n", "-", "e", "m", "a", "i", "l">>
Emails ==
  { <<>>, ValidEmail, NotAnEmail,
    <<"a", "@", "b">>,
    <<"a", " ", "@", "b", ".", "c">>,
    <<"a", "@", "b", "@", "c", ".", "d">> }

\* An email test that only looks for an "@".
EmailRegexLoose(s) == \E i \in 1..Len(s) : s[i] = "@"

\* /^[^\s@]+@[^\s@]+\.[^\s@]+$/.test(s)
EmailRegexTest(s) ==
  \E i, j \in 1..Len(s) :
    /\ s[i] = "@" /\ s[j] = "."
    /\ 1 < i /\ i + 1 < j /\ j < Len(s)
    /\ \A k \in 1..Len(s) : s[k] # " " /\ (k # i => s[k] # "@")

\* req.body.frequency; "" is a missing or empty frequency.  One tick of the
\* clock is one second.
EverySecond == "* * * * * *"
EveryOtherSecond == "*/2 * * * * *"
Frequencies == {"", EverySecond, EveryOtherSecond, "every day at nine"}

\* cron-parser accepts the expression.
IsValidCron(frequency) == frequency \in {EverySecond, EveryOtherSecond}

CronPeriod(frequency) == IF frequency = EveryOtherSecond THEN 2 ELSE 1

\* A next-invocation rule that counts the current second in.
CronNextInclusive(frequency, t) ==
  ((t + CronPeriod(frequency) - 1) \div CronPeriod(frequency))
    * CronPeriod(frequency)

\* job.nextInvocation() of a job armed at t, and the recurrence armed when
\* the invocation of time t fires: the first time of the rule after t.
CronNext(frequency, t) ==
  (t \div CronPeriod(frequency) + 1) * CronPeriod(frequency)

\* req.body.reportConfig: absent, {}, {filters: {region: "North"}}, and what
\* the client sends, {filters: {startDate, endDate, userId, region}}.
NoConfig == [present |-> FALSE, filters |-> {}]
RegionConfig == [present |-> TRUE, filters |-> {<<"region", "North">>}]
ReportConfigs ==
  { NoConfig,
    [present |-> TRUE, filters |-> {}],
    RegionConfig,
    [present |-> TRUE,
     filters |-> {<<"startDate", "2025-05-02">>, <<"endDate", "2025-06-01">>,
                  <<"userId", "">>, <<"region", "">>}] }

Columns == {"id", "date", "user_id", "region", "amount"}

Regions == {"North", "South"}

\* supabase.from('sales_data').select('*').match(f): the rows equal to f on
\* every column f names; a name that is no column is an error of the query.
QueryFails(f) == \E kv \in f : kv[1] \notin Columns

SelectMatch(rows, f) ==
  SelectSeq(rows, LAMBDA row : \A kv \in f : row[kv[1]] = kv[2])

\* A callback that queries the rows the table held when the job was made.
FiringQuerySnapshot(job, rows) ==
  SelectMatch(SubSeq(rows, 1, job.rowsAtSchedule), job.filters)

\* The query of a job's callback, run on the table as it is at the firing.
FiringQuery(job, rows) == SelectMatch(rows, job.filters)

\* The position of a job's callback: "idle" before its first firing and after
\* a firing that sent its mail, "failed" after a firing that ended in the
\* catch block, "query" and "render" at the awaits of a running firing.
IdleFiring == [pc |-> "idle", data |-> <<>>]

NoJob == 0

\* res.status(status).json({error}) of the schedule handler.
RespondError(status, body, job) ==
  [status |-> status, email |-> body.email, frequency |-> body.frequency,
   job |-> job]

\* res.json({success, message, nextRun}) for the request that armed job;
\* receivedAt is the time the request came in.
RespondOk(job, receivedAt, nextRun) ==
  [status |-> 200, job |-> job, receivedAt |-> receivedAt,
   nextRun |-> nextRun]

\* The job schedule.scheduleJob arms; rowsAtSchedule records how many rows
\* sales_data held at that moment.
NewJob(body) ==
  [email |-> body.email, frequency |-> body.frequency,
   filters |-> body.reportConfig.filters,
   next |-> CronNext(body.frequency, now),
   rowsAtSchedule |-> Len(salesData)]

\* The synchronous part of the handler, up to the await of the insert.
\* schedule.scheduleJob answers null for an expression it cannot parse, and
\* job.nextInvocation() then throws inside the try block.
ScheduleRequest(body) ==
  /\ UNCHANGED <<reports, filters, downloads, exportResp, client, doc>>
  /\ UNCHANGED browsers
  /\ UNCHANGED apiVars
  /\ UNCHANGED <<now, salesData, scheduledReports, outbox>>
  /\ IF ~TruthyText(body.email) \/ ~Truthy(body.frequency)
          \/ ~body.reportConfig.present
       THEN /\ lastResp' = RespondError(400, body, NoJob)
            /\ UNCHANGED <<jobs, pending, firing>>
     ELSE IF ~EmailRegexTest(body.email)
       THEN /\ lastResp' = RespondError(400, body, NoJob)
            /\ UNCHANGED <<jobs, pending, firing>>
     ELSE IF ~IsValidCron(body.frequency)
       THEN /\ lastResp' = RespondError(500, body, NoJob)
            /\ UNCHANGED <<jobs, pending, firing>>
     ELSE /\ Len(jobs) < MaxJobs
          /\ jobs' = Append(jobs, NewJob(body))
          /\ firing' = Append(firing, IdleFiring)
          /\ pending' = pending \cup
               {[job |-> Len(jobs) + 1, body |-> body, receivedAt |-> now,
                 next_run |-> NewJob(body).next]}
          /\ UNCHANGED lastResp

\* A handler that cancels the job when the insert fails.
ScheduleInsertDoneCancels(p, dbError) ==
  /\ p \in pending
  /\ pending' = pending \ {p}
  /\ UNCHANGED <<reports, filters, downloads, exportResp, client, doc>>
  /\ UNCHANGED browsers
  /\ UNCHANGED apiVars
  /\ UNCHANGED <<now, salesData, outbox>>
  /\ IF dbError
       THEN /\ lastResp' = RespondError(500, p.body, p.job)
            /\ jobs' = SubSeq(jobs, 1, p.job - 1)
                         \o SubSeq(jobs, p.job + 1, Len(jobs))
            /\ firing' = SubSeq(firing, 1, p.job - 1)
                           \o SubSeq(firing, p.job + 1, Len(firing))
            /\ UNCHANGED scheduledReports
       ELSE /\ scheduledReports' = Append(scheduledReports,
                 [email |-> p.body.email, frequency |-> p.body.frequency,
                  report_config |-> p.body.reportConfig,
                  next_run |-> p.next_run])
            /\ lastResp' = RespondOk(p.job, p.receivedAt, jobs[p.job].next)
            /\ UNCHANGED <<jobs, firing>>

\* The handler after the await: the store answered the insert.
ScheduleInsertDone(p, dbError) ==
  /\ p \in pending
  /\ pending' = pending \ {p}
  /\ UNCHANGED <<reports, filters, downloads, exportResp, client, doc>>
  /\ UNCHANGED browsers
  /\ UNCHANGED apiVars
  /\ UNCHANGED <<now, salesData, jobs, firing, outbox>>
  /\ IF dbError
       THEN /\ lastResp' = RespondError(500, p.body, p.job)
            /\ UNCHANGED scheduledReports
       ELSE /\ scheduledReports' = Append(scheduledReports,
                 [email |-> p.body.email, frequency |-> p.body.frequency,
                  report_config |-> p.body.reportConfig,
                  next_run |-> p.next_run])
            /\ lastResp' = RespondOk(p.job, p.receivedAt, jobs[p.job].next)

\* A row enters sales_data; the store assigns its id.
StoreInsert(region) ==
  /\ Len(salesData) < MaxRows
  /\ salesData' = Append(salesData,
       [id |-> Len(salesData) + 1, date |-> "2025-06-01", user_id |-> 1,
        region |-> region, amount |-> 1000])
  /\ UNCHANGED <<reports, filters, downloads, exportResp, client, doc>>
  /\ UNCHANGED browsers
  /\ UNCHANGED apiVars
  /\ UNCHANGED <<now, scheduledReports, jobs, pending, firing, outbox,
                 lastResp>>

\* A second passes; a timer that is due fires before the clock moves on.
Tick ==
  /\ now < MaxTime
  /\ \A j \in 1..Len(jobs) : jobs[j].next > now
  /\ now' = now + 1
  /\ UNCHANGED <<reports, filters, downloads, exportResp, client, doc>>
  /\ UNCHANGED browsers
  /\ UNCHANGED apiVars
  /\ UNCHANGED <<salesData, scheduledReports, jobs, pending, firing, outbox,
                 lastResp>>

\* The timer of job j fires: node-schedule arms the next recurrence, then
\* invokes the callback, which runs up to the await of its query.
FireStart(j) ==
  /\ j \in 1..Len(jobs)
  /\ jobs[j].next <= now
  /\ firing[j].pc \in {"idle", "failed"}
  /\ jobs' = [jobs EXCEPT ![j].next = CronNext(jobs[j].frequency, jobs[j].next)]
  /\ firing' = [firing EXCEPT ![j].pc = "query"]
  /\ UNCHANGED <<reports, filters, downloads, exportResp, client, doc>>
  /\ UNCHANGED browsers
  /\ UNCHANGED apiVars
  /\ UNCHANGED <<now, salesData, scheduledReports, pending, outbox, lastResp>>

\* A catch block that also cancels the job.
FiringCaughtCancels(j) ==
  /\ firing' = [firing EXCEPT ![j] = [pc |-> "failed", data |-> <<>>]]
  /\ jobs' = SubSeq(jobs, 1, j - 1) \o SubSeq(jobs, j + 1, Len(jobs))
  /\ UNCHANGED outbox

\* The catch block of the callback: log the error, and nothing else.
FiringCaught(j) ==
  /\ firing' = [firing EXCEPT ![j] = [pc |-> "failed", data |-> <<>>]]
  /\ UNCHANGED <<jobs, outbox>>

\* The store answers the query of the callback; storeError is a failure of
\* the store itself.
FireFetch(j, storeError) ==
  /\ j \in 1..Len(jobs)
  /\ firing[j].pc = "query"
  /\ IF storeError \/ QueryFails(jobs[j].filters)
       THEN FiringCaught(j)
       ELSE /\ firing' = [firing EXCEPT ![j].pc = "render",
                            ![j].data = FiringQuery(jobs[j], salesData)]
            /\ UNCHANGED <<jobs, outbox>>
  /\ UNCHANGED <<reports, filters, downloads, exportResp, client, doc>>
  /\ UNCHANGED browsers
  /\ UNCHANGED apiVars
  /\ UNCHANGED <<now, salesData, scheduledReports, pending, lastResp>>

\* Where the rest of the callback may throw: at the launch of the browser,
\* between the launch and browser.close(), or at sendMail.
FiringOutcomes == {"launchError", "renderError", "sendError", "sent"}

\* The rest of the callback: the PDF of generatePDFTemplate(data) is rendered
\* in a headless browser and mailed to the recipient.  The browser is closed
\* by the statement after page.pdf(), which an exception of newPage,
\* setContent or pdf skips.
FireDeliver(j, outcome) ==
  /\ j \in 1..Len(jobs)
  /\ firing[j].pc = "render"
  /\ IF outcome # "sent"
       THEN FiringCaught(j)
       ELSE /\ outbox' = outbox (+) SetToBag({[to |-> jobs[j].email,
                                                  rows |-> Len(firing[j].data)]})
            /\ firing' = [firing EXCEPT ![j] = IdleFiring]
            /\ UNCHANGED jobs
  /\ browsers' = IF outcome = "renderError" THEN browsers + 1 ELSE browsers
  /\ UNCHANGED <<reports, filters, downloads, exportResp, client, doc>>
  /\ UNCHANGED apiVars
  /\ UNCHANGED <<now, salesData, scheduledReports, pending, lastResp>>

\* The request bodies tried: every email with every frequency, and every
\* report configuration with the valid email and the cron expressions.
ScheduleBodies ==
  {[email |-> e, frequency |-> f, reportConfig |-> RegionConfig] :
     e \in Emails, f \in Frequencies}
  \cup {[email |-> ValidEmail, frequency |-> f, reportConfig |-> c] :
          f \in Frequencies, c \in ReportConfigs}

\* The bodies that pass validation.
JobBodies ==
  {b \in ScheduleBodies :
     EmailRegexTest(b.email) /\ IsValidCron(b.frequency)
     /\ b.reportConfig.present}

Init ==
  /\ reports = <<>>
  /\ filters = EmptyFilters
  /\ downloads = 0
  /\ exportResp = [route |-> "none"]
  /\ now = 0
  /\ salesData = <<>>
  /\ scheduledReports = <<>>
  /\ jobs = <<>>
  /\ pending = {}
  /\ firing = <<>>
  /\ outbox = EmptyBag
  /\ lastResp = [status |-> 0]
  /\ revision = Insight360
  /\ table = <<>>
  /\ apiResp = NoRequest
  /\ boots = 0
  /\ browsers = 0
  /\ client = IdlePage
  /\ doc = NoDoc

\* POST /api/schedule under every request body, up to the answer.
NextRequests ==
  \/ \E body \in ScheduleBodies : ScheduleRequest(body)
  \/ \E p \in pending : \E dbError \in BOOLEAN : ScheduleInsertDone(p, dbError)

SpecRequests == Init /\ [][NextRequests]_vars

\* The requests that pass validation, their timers firing as the clock runs,
\* and sales_data growing meanwhile.
Next ==
  \/ \E body \in JobBodies : ScheduleRequest(body)
  \/ \E p \in pending : \E dbError \in BOOLEAN : ScheduleInsertDone(p, dbError)
  \/ \E region \in Regions : StoreInsert(region)
  \/ Tick
  \/ \E j \in 1..MaxJobs : FireStart(j)
  \/ \E j \in 1..MaxJobs : \E e \in BOOLEAN : FireFetch(j, e)
  \/ \E j \in 1..MaxJobs : \E o \in FiringOutcomes : FireDeliver(j, o)

Spec == Init /\ [][Next]_vars

-----------------------------------------------------------------------------
(* Export: exportPDF of the frontend, POST /api/export/excel and /pdf *)

MaxDownloads == 2

\* The y of the line of the record at an index: 20 + index * 10.
YPosition(index) == 20 + index * 10

PageThreshold == 280

\* One turn of the forEach: past the threshold a page is added and the line
\* is drawn at 20 on it; otherwise the line is drawn at its y on the page
\* the document is at, which is its last one.
DrawRecord(pages, index) ==
  IF YPosition(index) > PageThreshold
    THEN Append(pages, <<[y |-> 20, index |-> index]>>)
    ELSE [pages EXCEPT ![Len(pages)] =
            Append(@, [y |-> YPosition(index), index |-> index])]

\* filteredReports.forEach from an index on; new jsPDF() has one page.
RECURSIVE DrawRecords(_, _, _)
DrawRecords(pages, index, n) ==
  IF index >= n THEN pages
  ELSE DrawRecords(DrawRecord(pages, index), index + 1, n)

\* The record lines of the document of n records, page by page.
PdfDocument(n) == [saved |-> TRUE, pages |-> DrawRecords(<< <<>> >>, 0, n)]

\* exportPDF of the frontend: no file for an empty filtered list; otherwise
\* the document is built and saved, unless building it throws.
ExportPDF(throws) ==
  /\ IF filteredReports = <<>> \/ throws
       THEN UNCHANGED <<downloads, doc>>
       ELSE /\ downloads < MaxDownloads
            /\ downloads' = downloads + 1
            /\ doc' = PdfDocument(Len(filteredReports))
  /\ UNCHANGED <<reports, filters, exportResp, client>>
  /\ UNCHANGED serverVars

\* req.body.data of an export request: a JSON value.
ExportRows == UNION {[1..k -> Regions] : k \in 0..MaxRows}

ExportData ==
  {[kind |-> k, rows |-> <<>>] :
     k \in {"undefined", "null", "falsy", "truthy", "object"}}
  \cup {[kind |-> "array", rows |-> r] : r \in ExportRows}

\* !data
IsFalsy(data) == data.kind \in {"undefined", "null", "falsy"}

\* Array.isArray(data)
IsArray(data) == data.kind = "array"

\* A guard that forgets the length test.
NothingToExportLenient(data) == IsFalsy(data) \/ ~IsArray(data)

\* !data || !Array.isArray(data) || data.length === 0
NothingToExport(data) ==
  IsFalsy(data) \/ ~IsArray(data) \/ Len(data.rows) = 0

NoArtifact == -1

\* An export handler: 400 before anything is rendered, 500 when rendering
\* throws, else the artifact with one row per record.
ExportAnswer(route, data, throws) ==
  IF NothingToExport(data)
    THEN [route |-> route, data |-> data, status |-> 400,
          rendering |-> FALSE, artifact |-> NoArtifact]
  ELSE IF throws
    THEN [route |-> route, data |-> data, status |-> 500,
          rendering |-> TRUE, artifact |-> NoArtifact]
  ELSE [route |-> route, data |-> data, status |-> 200,
        rendering |-> TRUE, artifact |-> Len(data.rows)]

\* POST /api/export/excel
ExportExcel(data, throws) ==
  /\ exportResp' = ExportAnswer("excel", data, throws)
  /\ UNCHANGED <<reports, filters, downloads, client, doc>>
  /\ UNCHANGED serverVars

\* POST /api/export/pdf.  The browser it launched is closed in the finally
\* block, whatever threw after the launch.
ExportPdf(data, throws) ==
  /\ exportResp' = ExportAnswer("pdf", data, throws)
  /\ UNCHANGED <<reports, filters, downloads, client, doc>>
  /\ UNCHANGED serverVars

InitExport ==
  /\ reports \in ReportLists
  /\ filters = EmptyFilters
  /\ downloads = 0
  /\ exportResp = [route |-> "none"]
  /\ now = 0
  /\ salesData = <<>>
  /\ scheduledReports = <<>>
  /\ jobs = <<>>
  /\ pending = {}
  /\ firing = <<>>
  /\ outbox = EmptyBag
  /\ lastResp = [status |-> 0]
  /\ revision = Insight360
  /\ table = <<>>
  /\ apiResp = NoRequest
  /\ boots = 0
  /\ browsers = 0
  /\ client = IdlePage
  /\ doc = NoDoc

\* The exports, with the reports and the two selects of the filter bar
\* changing in between.
NextExport ==
  \/ \E r \in Records : AddReport(r)
  \/ \E name \in {"date", "category"} :
       \E value \in FilterValues(name, filters[name]) :
         HandleFilterChange(name, value)
  \/ \E throws \in BOOLEAN : ExportPDF(throws)
  \/ \E data \in ExportData : \E throws \in BOOLEAN : ExportExcel(data, throws)
  \/ \E data \in ExportData : \E throws \in BOOLEAN : ExportPdf(data, throws)

SpecExport == InitExport /\ [][NextExport]_vars

\* The keys a record of an export request may carry.
RecordKeys == {"date", "category", "amount"}

\* header.toUpperCase()
KeyToUpperCase(key) ==
  CASE key = "date" -> "DATE" [] key = "category" -> "CATEGORY"
    [] key = "amount" -> "AMOUNT"

\* A record of req.body.data is an object: its keys in the order JSON.parse
\* met them, none twice, and at least one.
KeyLists ==
  {k \in UNION {[1..n -> RecordKeys] : n \in 1..Cardinality(RecordKeys)} :
     \A i, j \in 1..Len(k) : i # j => k[i] # k[j]}

\* The lists of records tried; the value a record has under a key is told
\* from the others by the place of the record and the key.
RecordLists == UNION {[1..n -> KeyLists] : n \in 1..MaxRows}

HasKey(keys, key) == \E i \in 1..Len(keys) : keys[i] = key

EmptyCell == [record |-> 0, key |-> ""]

\* worksheet.addRow(row): under each column the value the row has for the
\* key of the column, and nothing where it has none.
AddRow(columns, data, i) ==
  [c \in 1..Len(columns) |->
     IF HasKey(data[i], columns[c]) THEN [record |-> i, key |-> columns[c]]
     ELSE EmptyCell]

\* The worksheet: the columns are Object.keys(data[0]), the header row has
\* their names in upper case, and a row is added for every record.
Worksheet(data) ==
  [header |-> [c \in 1..Len(data[1]) |-> KeyToUpperCase(data[1][c])],
   rows |-> [i \in 1..Len(data) |-> AddRow(data[1], data, i)]]

\* POST /api/export/excel with a list of records, none empty: the workbook
\* is written and sent.
ExportWorksheet(data) ==
  /\ exportResp' = [route |-> "excel", data |-> data, status |-> 200,
                    rendering |-> TRUE, artifact |-> Len(data),
                    sheet |-> Worksheet(data)]
  /\ UNCHANGED <<reports, filters, downloads, client, doc>>
  /\ UNCHANGED serverVars

NextSheet == \E data \in RecordLists : ExportWorksheet(data)

SpecSheet == Init /\ [][NextSheet]_vars

\* The longest list of reports exportPDF is given.
MaxLines == 45

\* The record of a long list of reports.
LineRecord ==
  [date |-> "2025-06-01", category |-> "Sales",
   user |-> <<"N", "o">>, region |-> <<"N", "o">>]

\* The page holds a list of reports of any length, and no filter is set.
InitLayout ==
  /\ reports \in {[i \in 1..n |-> LineRecord] : n \in 0..MaxLines}
  /\ filters = EmptyFilters
  /\ downloads = 0
  /\ exportResp = [route |-> "none"]
  /\ now = 0
  /\ salesData = <<>>
  /\ scheduledReports = <<>>
  /\ jobs = <<>>
  /\ pending = {}
  /\ firing = <<>>
  /\ outbox = EmptyBag
  /\ lastResp = [status |-> 0]
  /\ revision = "part_002"
  /\ table = <<>>
  /\ apiResp = NoRequest
  /\ boots = 0
  /\ browsers = 0
  /\ client = IdlePage
  /\ doc = NoDoc

\* The PDF button of the page.
NextLayout == \E throws \in BOOLEAN : ExportPDF(throws)

SpecLayout == InitLayout /\ [][NextLayout]_vars

-----------------------------------------------------------------------------
(* The report filter: C1, C2, C3 *)

RECURSIVE IsSubSeq(_, _)
IsSubSeq(a, b) ==
  IF a = <<>> THEN TRUE
  ELSE IF b = <<>> THEN FALSE
  ELSE IF Head(a) = Head(b) THEN IsSubSeq(Tail(a), Tail(b))
  ELSE IsSubSeq(a, Tail(b))

\* C1: the filtered list is a sub-sequence of the reports in the same relative
\* order, and with all four criteria empty it equals the reports.
C1_FilterIsOrderedSubset ==
  /\ IsSubSeq(filteredReports, reports)
  /\ (filters = EmptyFilters => filteredReports = reports)

C1_Witness ==
  /\ filters # EmptyFilters
  /\ Len(reports) = 2
  /\ filteredReports = <<reports[2]>>
  /\ reports[1] # reports[2]

\* Two characters that differ at most in case.
SameLetter(a, b) == a = b \/ {a, b} = {"N", "n"}

\* t occurs in s when case is ignored.
ContainsIgnoringCase(s, t) ==
  \E k \in 0..(Len(s) - Len(t)) :
    \A i \in 1..Len(t) : SameLetter(s[k + i], t[i])

\* Every populated criterion matches the record.
Criteria(r) ==
  /\ (filters.date = "" \/ r.date = filters.date)
  /\ (filters.category = "" \/ r.category = filters.category)
  /\ (filters.user = <<>> \/ ContainsIgnoringCase(r.user, filters.user))
  /\ (filters.region = <<>> \/ ContainsIgnoringCase(r.region, filters.region))

\* C2: a record is in the filtered result if and only if every populated
\* criterion matches it (date and category by equality, user and region by
\* case-insensitive containment); unset criteria impose no constraint.
C2_FilteredIffCriteria ==
  /\ \A i \in 1..Len(reports) :
       Criteria(reports[i]) <=>
         \E j \in 1..Len(filteredReports) : filteredReports[j] = reports[i]
  /\ Len(filteredReports) =
       Cardinality({i \in 1..Len(reports) : Criteria(reports[i])})

\* Region "no" keeps a record of region "No" and drops one of region "onN".
C2_Witness ==
  /\ filters.region = <<"n", "o">>
  /\ \E j \in 1..Len(filteredReports) : filteredReports[j].region = <<"N", "o">>
  /\ \E i \in 1..Len(reports) : reports[i].region = <<"o", "n", "N">>
  /\ Len(filteredReports) < Len(reports)

\* C3: filtering the filtered list again with the same criteria changes
\* nothing.
C3_FilterIdempotent ==
  FilterReports(filteredReports, filters) = filteredReports

C3_Witness ==
  /\ filters.user # <<>>
  /\ filteredReports # <<>>
  /\ Len(filteredReports) < Len(reports)

-----------------------------------------------------------------------------
(* Export of an empty record set: C4 *)

\* The request carries no record to export.
EmptyRecordSet(data) == data.kind # "array" \/ data.rows = <<>>

\* C4: an export of an empty record set is refused and produces no artifact:
\* both export endpoints answer 400 without rendering when data is absent, not
\* a list, or empty, and exportPDF of the frontend saves no file while the
\* filtered list is empty.
C4_EmptyExportRefused ==
  /\ [](exportResp.route # "none" /\ EmptyRecordSet(exportResp.data)
          => /\ exportResp.status = 400
             /\ ~exportResp.rendering
             /\ exportResp.artifact = NoArtifact)
  /\ [][filteredReports = <<>> => downloads' = downloads]_vars

C4_Witness ==
  /\ exportResp.route = "pdf"
  /\ exportResp.data = [kind |-> "array", rows |-> <<>>]
  /\ exportResp.status = 400
  /\ reports # <<>> /\ filteredReports = <<>>
  /\ downloads = 1

-----------------------------------------------------------------------------
(* POST /api/schedule: C5, C6, C9, C10 *)

\* s reads local@domain.tld: three non-empty parts free of blanks and "@".
EmailPart(s, lo, hi) ==
  lo <= hi /\ \A k \in lo..hi : s[k] \notin {" ", "@"}

BasicEmailPattern(s) ==
  \E a, d \in 1..Len(s) :
    /\ s[a] = "@" /\ s[d] = "." /\ a < d
    /\ EmailPart(s, 1, a - 1)
    /\ EmailPart(s, a + 1, d - 1)
    /\ EmailPart(s, d + 1, Len(s))

\* C5: a request whose email does not match the basic email pattern is
\* answered 400, and no timer and no log row exists for such an email.
C5_InvalidEmailRejected ==
  /\ ("email" \in DOMAIN lastResp /\ ~BasicEmailPattern(lastResp.email))
       => lastResp.status = 400 /\ lastResp.job = NoJob
  /\ \A j \in 1..Len(jobs) : BasicEmailPattern(jobs[j].email)
  /\ \A p \in pending : BasicEmailPattern(p.body.email)
  /\ \A i \in 1..Len(scheduledReports) :
       BasicEmailPattern(scheduledReports[i].email)

\* "not-an-email" with a valid frequency and configuration was answered 400.
C5_Witness ==
  /\ lastResp.status = 400
  /\ lastResp.email = NotAnEmail
  /\ lastResp.frequency = EverySecond
  /\ jobs = <<>> /\ scheduledReports = <<>>

\* C6: a request whose recurrence expression is not a valid cron-style
\* schedule is answered with a 400-class validation error, before any
\* registration.
C6_InvalidCronIs400 ==
  ("frequency" \in DOMAIN lastResp
     /\ lastResp.frequency \notin {EverySecond, EveryOtherSecond})
    => /\ lastResp.status \in 400..499
       /\ lastResp.job = NoJob

\* C9: a successful answer carries a nextRun strictly later than the time the
\* request was received.
C9_NextRunInFuture ==
  lastResp.status = 200 => lastResp.nextRun > lastResp.receivedAt

\* A request received after the clock has run, whose timer fired during the
\* insert.
C9_Witness ==
  /\ lastResp.status = 200
  /\ lastResp.receivedAt > 0
  /\ lastResp.nextRun > lastResp.receivedAt + 1

\* C10: once the requests are answered, a timer is armed for a request if and
\* only if its log row was persisted; a request answered with an error leaves
\* no timer armed.
C10_TimerIffLogRow ==
  pending = {} =>
    /\ Len(jobs) = Len(scheduledReports)
    /\ (lastResp.status >= 400 => lastResp.job = NoJob)

-----------------------------------------------------------------------------
(* Firings of a scheduled job: C7, C8 *)

\* C7: an error during a firing ends in the callback's catch block: the job
\* stays armed as it was, no mail is sent, and the job's next firing starts
\* when it is due.
C7_FiringErrorSwallowed ==
  /\ [][\A j \in 1..Len(jobs) :
          (firing[j].pc \in {"query", "render"} /\ firing'[j].pc = "failed")
            => jobs' = jobs /\ outbox' = outbox]_vars
  /\ [](\A j \in 1..Len(firing) :
          firing[j].pc = "failed"
            => /\ j <= Len(jobs)
               /\ (jobs[j].next <= now => ENABLED FireStart(j)))

\* A firing has failed and the job's next firing is due.
C7_Witness ==
  \E j \in 1..Len(jobs) :
    /\ firing[j].pc = "failed"
    /\ jobs[j].next <= now
    /\ ENABLED FireStart(j)

\* The rows of sales_data that agree with job j's criteria on every column
\* the criteria name.
AgreesWithCriteria(row, j) ==
  \A kv \in jobs[j].filters : row[kv[1]] = kv[2]

\* C8: the data a firing renders is what the store holds when the firing
\* queries it, rows inserted since the schedule request included; the job's
\* filter criteria stay those of the request.
C8_FiringQueriesLiveStore ==
  /\ [][\A j \in 1..Len(jobs) :
          (firing[j].pc = "query" /\ firing'[j].pc = "render")
            => /\ \A i \in 1..Len(salesData) :
                    AgreesWithCriteria(salesData[i], j) <=>
                      \E k \in 1..Len(firing'[j].data) :
                        firing'[j].data[k] = salesData[i]
               /\ Len(firing'[j].data) =
                    Cardinality({i \in 1..Len(salesData) :
                                   AgreesWithCriteria(salesData[i], j)})]_vars
  /\ [][\A j \in 1..Len(jobs) : jobs'[j].filters = jobs[j].filters]_vars

\* A firing is about to render a row inserted after its job was scheduled.
C8_Witness ==
  \E j \in 1..Len(jobs) :
    /\ firing[j].pc = "render"
    /\ \E k \in 1..Len(firing[j].data) :
         firing[j].data[k].id > jobs[j].rowsAtSchedule

-----------------------------------------------------------------------------
(* Backend: the reports API of Reportify, GET and POST /api/reports *)

MaxRequests == 3

\* A field the request body does not carry.
Undefined == "undefined"

\* !v of a text field of the body
FalsyText(v) == v = Undefined \/ v = ""

\* req.body.amount: a JSON number, a JSON string or nothing.
NumberAmount(n) == [kind |-> "number", num |-> n, text |-> <<>>]
StringAmount(t) == [kind |-> "string", num |-> 0, text |-> t]
NoAmount == [kind |-> "undefined", num |-> 0, text |-> <<>>]
NullAmount == [kind |-> "null", num |-> 0, text |-> <<>>]

Amounts ==
  { NoAmount, NumberAmount(0), NumberAmount(12),
    StringAmount(<<>>), StringAmount(<<"1", "2">>),
    StringAmount(<<"1", "a">>), StringAmount(<<"a">>) }

\* !amount
FalsyAmount(a) ==
  \/ a.kind \in {"undefined", "null"}
  \/ a.kind = "number" /\ a.num = 0
  \/ a.kind = "string" /\ a.text = <<>>

Digits == {"0", "1", "2"}

DigitValue(c) == CASE c = "0" -> 0 [] c = "1" -> 1 [] c = "2" -> 2

\* The value of the longest prefix of digits of t, read after the digits acc.
RECURSIVE LeadingNumber(_, _)
LeadingNumber(t, acc) ==
  IF t = <<>> \/ Head(t) \notin Digits
    THEN acc
    ELSE LeadingNumber(Tail(t), 10 * acc + DigitValue(Head(t)))

\* parseFloat(amount) as JSON.stringify sends it: the number at the head of
\* the text, whatever follows it; NaN is sent as null.
ParseFloat(a) ==
  IF a.kind = "number" THEN a
  ELSE IF a.kind = "string" /\ a.text # <<>> /\ Head(a.text) \in Digits
    THEN NumberAmount(LeadingNumber(a.text, 0))
  ELSE NullAmount

\* The body of the scenario, and the bodies tried: one field missing at a
\* time, and every amount.
FullBody ==
  [date |-> "2025-06-01", category |-> "Sales", amount |-> NumberAmount(12),
   user |-> "Alice", region |-> "North"]

ReportFields == {"date", "category", "user", "region"}

ReportBodies ==
  {[FullBody EXCEPT ![f] = Undefined] : f \in ReportFields}
  \cup {[FullBody EXCEPT !.amount = a] : a \in Amounts}

\* The revisions whose POST /api/reports tests the five fields.
ValidatingRevisions == {"part_000", "part_002", "part_004 reports handler"}

\* The revisions with no try/catch around the handler body.
BareHandlers ==
  {"part_004 reports handler", "backend/index.js schedule-report handler"}

ReportsRevisions == ReportifyRevisions \ {"backend/index.js schedule-report handler"}

DispatchRevisions == ReportifyRevisions \ {"part_004 reports handler"}

\* !date || !category || !amount || !user || !region
MissingField(body) ==
  \/ FalsyText(body.date) \/ FalsyText(body.category)
  \/ FalsyAmount(body.amount)
  \/ FalsyText(body.user) \/ FalsyText(body.region)

\* The object handed to insert: amount goes through parseFloat where the
\* revision validates, and as it came elsewhere.
InsertPayload(rev, body) ==
  IF rev \in ValidatingRevisions
    THEN [body EXCEPT !.amount = ParseFloat(body.amount)]
    ELSE body

\* The reports table: NOT NULL columns, a DATE and a NUMERIC column.
StoreAccepts(payload) ==
  /\ \A f \in ReportFields : payload[f] # Undefined
  /\ payload.date # ""
  /\ \/ payload.amount.kind = "number"
     \/ /\ payload.amount.kind = "string" /\ payload.amount.text # <<>>
        /\ \A i \in 1..Len(payload.amount.text) :
             payload.amount.text[i] \in Digits

\* The row the store makes of an accepted payload; it assigns the id.
StoredRow(payload, rows) ==
  [id |-> Len(rows) + 1, date |-> payload.date,
   category |-> payload.category,
   amount |-> IF payload.amount.kind = "number" THEN payload.amount.num
              ELSE LeadingNumber(payload.amount.text, 0),
   user |-> payload.user, region |-> payload.region]

\* An insert that overwrites the newest row.
InsertOverwrites(rows, row) ==
  IF rows = <<>> THEN <<row>> ELSE [rows EXCEPT ![Len(rows)] = row]

\* insert(...) on the reports table: one more row.
InsertRow(rows, row) == Append(rows, row)

\* What a handler sent: one response with a status and a JSON payload.
Respond(route, body, outcome, status, kind, rows, inserts, sends) ==
  [route |-> route, seq |-> apiResp.seq + 1, body |-> body,
   outcome |-> outcome, status |-> status, responses |-> 1,
   escaped |-> FALSE, payload |-> [kind |-> kind, rows |-> rows],
   inserts |-> inserts, sends |-> sends]

\* The handler threw or rejected before it sent anything.
Escape(route, body, outcome, inserts, sends) ==
  [route |-> route, seq |-> apiResp.seq + 1, body |-> body,
   outcome |-> outcome, status |-> 0, responses |-> 0,
   escaped |-> TRUE, payload |-> [kind |-> "none", rows |-> <<>>],
   inserts |-> inserts, sends |-> sends]

\* An exception at an await of the handler: the catch block answers 500,
\* and where there is no try block the rejection leaves the handler.
Thrown(route, body, outcome, inserts, sends) ==
  IF revision \in BareHandlers
    THEN Escape(route, body, outcome, inserts, sends)
    ELSE Respond(route, body, outcome, 500, "error", <<>>, inserts, sends)

NoBody == [present |-> FALSE]

\* What supabase.from("reports").select("*") resolves to: the rows, null
\* data without an error, an error, or a rejected promise.
SelectOutcomes == {"rows", "null", "error", "throws"}

\* GET /api/reports.  part_000 logs data.length before it sends data || [].
GetReports(outcome) ==
  /\ revision \in ReportsRevisions
  /\ apiResp.seq < MaxRequests
  /\ apiResp' =
       CASE outcome = "throws" ->
              Thrown("GET /api/reports", NoBody, outcome, 0, 0)
         [] outcome = "error" ->
              Respond("GET /api/reports", NoBody, outcome, 500, "error",
                      <<>>, 0, 0)
         [] outcome = "null" ->
              IF revision = "part_000"
                THEN Respond("GET /api/reports", NoBody, outcome, 500,
                             "error", <<>>, 0, 0)
                ELSE Respond("GET /api/reports", NoBody, outcome, 200,
                             "array", <<>>, 0, 0)
         [] outcome = "rows" ->
              Respond("GET /api/reports", NoBody, outcome, 200, "array",
                      table, 0, 0)
  /\ UNCHANGED <<revision, table, boots>>
  /\ UNCHANGED <<reports, filters, downloads, exportResp, client, doc>>
  /\ UNCHANGED browsers
  /\ UNCHANGED <<now, salesData, scheduledReports, jobs, pending, firing,
                 outbox, lastResp>>

\* What the insert resolves to: the store's answer to the payload (the new
\* row, or an error for a payload its columns refuse), an error of the store
\* itself, or a rejected promise.
InsertOutcomes == {"answers", "error", "throws"}

\* The status of a created record.
CreatedStatus(rev) == IF rev = "part_002" THEN 201 ELSE 200

\* POST /api/reports
PostReports(body, outcome) ==
  /\ revision \in ReportsRevisions
  /\ apiResp.seq < MaxRequests
  /\ IF revision \in ValidatingRevisions /\ MissingField(body)
       THEN /\ apiResp' = Respond("POST /api/reports", body, outcome, 400,
                                  "error", <<>>, 0, 0)
            /\ UNCHANGED table
     ELSE IF outcome = "throws"
       THEN /\ apiResp' = Thrown("POST /api/reports", body, outcome, 1, 0)
            /\ UNCHANGED table
     ELSE IF outcome = "error" \/ ~StoreAccepts(InsertPayload(revision, body))
       THEN /\ apiResp' = Respond("POST /api/reports", body, outcome, 500,
                                  "error", <<>>, 1, 0)
            /\ UNCHANGED table
     ELSE /\ table' = InsertRow(table,
                        StoredRow(InsertPayload(revision, body), table))
          /\ apiResp' = Respond("POST /api/reports", body, outcome,
                 CreatedStatus(revision), "record",
                 <<StoredRow(InsertPayload(revision, body), table)>>, 1, 0)
  /\ UNCHANGED <<revision, boots>>
  /\ UNCHANGED <<reports, filters, downloads, exportResp, client, doc>>
  /\ UNCHANGED browsers
  /\ UNCHANGED <<now, salesData, scheduledReports, jobs, pending, firing,
                 outbox, lastResp>>

-----------------------------------------------------------------------------
(* Backend: the dispatcher of Reportify, POST /api/schedule-report *)

\* req.body.reportData: nothing, an object that is no list, or a list.
ReportDataValues ==
  {d \in ExportData :
     d.kind \in {"undefined", "object"}
       \/ (d.kind = "array" /\ Len(d.rows) <= 1)}

\* The bodies tried; a serverless handler can also see a request without a
\* body, which express.json() would have turned into {}.
DispatchBodies ==
  {[present |-> TRUE, email |-> e, reportData |-> d] :
     e \in {<<>>, ValidEmail, NotAnEmail}, d \in ReportDataValues}
  \cup {[present |-> FALSE, email |-> <<>>,
         reportData |-> [kind |-> "undefined", rows |-> <<>>]]}

\* The revisions that also test reportData.length.
LengthTestingRevisions == {"part_003", "backend/index.js"}

\* !reportData.length
NoLength(data) == ~IsArray(data) \/ Len(data.rows) = 0

\* !email || !reportData, and || !reportData.length where it is tested.
DispatchInvalid(rev, body) ==
  \/ ~TruthyText(body.email)
  \/ IsFalsy(body.reportData)
  \/ rev \in LengthTestingRevisions /\ NoLength(body.reportData)

\* What transporter.sendMail does with the message.
TransportOutcomes == {"accepted", "rejected", "throws"}

\* POST /api/schedule-report.  The serverless handler destructures req.body
\* outside its try block; part_003 calls nodemailer.createTransporter, which
\* is no function, inside its try block.
ScheduleReport(body, outcome) ==
  /\ revision \in DispatchRevisions
  /\ apiResp.seq < MaxRequests
  /\ IF ~body.present /\ revision \in BareHandlers
       THEN /\ apiResp' = Escape("POST /api/schedule-report", body, outcome,
                                 0, 0)
            /\ UNCHANGED outbox
     ELSE IF DispatchInvalid(revision, body)
       THEN /\ apiResp' = Respond("POST /api/schedule-report", body, outcome,
                                  400, "error", <<>>, 0, 0)
            /\ UNCHANGED outbox
     ELSE IF revision = "part_003"
       THEN /\ apiResp' = Respond("POST /api/schedule-report", body, outcome,
                                  500, "error", <<>>, 0, 0)
            /\ UNCHANGED outbox
     ELSE IF outcome # "accepted"
       THEN /\ apiResp' = Respond("POST /api/schedule-report", body, outcome,
                                  500, "error", <<>>, 0, 1)
            /\ UNCHANGED outbox
     ELSE /\ apiResp' = Respond("POST /api/schedule-report", body, outcome,
                                200, "message", <<>>, 0, 1)
          /\ outbox' = outbox (+) SetToBag({[to |-> body.email,
                                             rows |-> Len(body.reportData.rows)]})
  /\ UNCHANGED <<revision, table, boots>>
  /\ UNCHANGED <<reports, filters, downloads, exportResp, client, doc>>
  /\ UNCHANGED browsers
  /\ UNCHANGED <<now, salesData, scheduledReports, jobs, pending, firing,
                 lastResp>>

-----------------------------------------------------------------------------
(* Backend: the data query of Insight360, POST /api/data *)

\* The value a set of key/value pairs gives a key.
Lookup(f, key) ==
  IF \E kv \in f : kv[1] = key
    THEN (CHOOSE kv \in f : kv[1] = key)[2]
    ELSE Undefined

\* ISO dates compare as text; the dates of the model in that order.
DateOrdinal(d) ==
  CASE d = "2025-05-02" -> 1 [] d = "2025-06-01" -> 2 [] d = "2025-06-02" -> 3

\* The user_id a userId of the body is equal to.
UserIdOf(userId) == CASE userId = "1" -> 1 [] userId = "2" -> 2

DataBodies ==
  [startDate : {Undefined, "2025-05-02", "2025-06-02"},
   endDate : {Undefined, "2025-06-01"},
   userId : {"", "1", "2"},
   region : {"", "North"}]

\* A query whose range leaves the end date out.
DataQueryExclusive(body, rows) ==
  SelectSeq(rows, LAMBDA row :
    /\ DateOrdinal(row.date) >= DateOrdinal(body.startDate)
    /\ DateOrdinal(row.date) < DateOrdinal(body.endDate)
    /\ ~FalsyText(body.userId) => row.user_id = UserIdOf(body.userId)
    /\ ~FalsyText(body.region) => row.region = body.region)

\* .gte('date', startDate).lte('date', endDate), and .eq on user_id and on
\* region where the body names them.
DataQuery(body, rows) ==
  SelectSeq(rows, LAMBDA row :
    /\ DateOrdinal(row.date) >= DateOrdinal(body.startDate)
    /\ DateOrdinal(row.date) <= DateOrdinal(body.endDate)
    /\ ~FalsyText(body.userId) => row.user_id = UserIdOf(body.userId)
    /\ ~FalsyText(body.region) => row.region = body.region)

\* POST /api/data
PostData(body, outcome) ==
  /\ revision = Insight360
  /\ apiResp.seq < MaxRequests
  /\ apiResp' =
       IF FalsyText(body.startDate) \/ FalsyText(body.endDate)
         THEN Respond("POST /api/data", body, outcome, 400, "error", <<>>,
                      0, 0)
       ELSE IF outcome \in {"error", "throws"}
         THEN Respond("POST /api/data", body, outcome, 500, "error", <<>>,
                      0, 0)
       ELSE IF outcome = "null"
         THEN Respond("POST /api/data", body, outcome, 200, "array", <<>>,
                      0, 0)
       ELSE Respond("POST /api/data", body, outcome, 200, "array",
                    DataQuery(body, salesData), 0, 0)
  /\ UNCHANGED <<revision, table, boots>>
  /\ UNCHANGED <<reports, filters, downloads, exportResp, client, doc>>
  /\ UNCHANGED browsers
  /\ UNCHANGED <<now, salesData, scheduledReports, jobs, pending, firing,
                 outbox, lastResp>>

\* Rows sales_data holds when the API is exercised.
SampleSales ==
  << [id |-> 1, date |-> "2025-06-01", user_id |-> 1, region |-> "North",
      amount |-> 1000],
     [id |-> 2, date |-> "2025-06-01", user_id |-> 1, region |-> "South",
      amount |-> 1000] >>

InitApi ==
  /\ reports = <<>>
  /\ filters = EmptyFilters
  /\ downloads = 0
  /\ exportResp = [route |-> "none"]
  /\ now = 0
  /\ salesData = SampleSales
  /\ scheduledReports = <<>>
  /\ jobs = <<>>
  /\ pending = {}
  /\ firing = <<>>
  /\ outbox = EmptyBag
  /\ lastResp = [status |-> 0]
  /\ revision \in ReportifyRevisions \cup {Insight360}
  /\ table = <<>>
  /\ apiResp = NoRequest
  /\ boots = 0
  /\ browsers = 0
  /\ client = IdlePage
  /\ doc = NoDoc

\* The request handlers of the deployed revision, under every body and every
\* outcome of the store and of the transport.
NextApi ==
  \/ \E o \in SelectOutcomes : GetReports(o)
  \/ \E body \in ReportBodies : \E o \in InsertOutcomes : PostReports(body, o)
  \/ \E body \in DispatchBodies : \E o \in TransportOutcomes :
       ScheduleReport(body, o)
  \/ \E body \in DataBodies : \E o \in SelectOutcomes : PostData(body, o)

SpecApi == InitApi /\ [][NextApi]_vars

-----------------------------------------------------------------------------
(* Frontend: the page of part_005 and its requests to /api/reports *)

\* How many times the Add button is pressed.
MaxAdds == 2

\* useEffect: the page is mounted and sends GET /api/reports.
PageMount ==
  /\ client.fetch.pc = "none"
  /\ client' = [client EXCEPT !.fetch.pc = "sent"]
  /\ UNCHANGED <<reports, filters, downloads, exportResp, doc>>
  /\ UNCHANGED serverVars

\* The backend answers the GET with the rows the table holds by then.
ServeFetch ==
  /\ client.fetch.pc = "sent"
  /\ client' = [client EXCEPT !.fetch = [pc |-> "answered", data |-> table]]
  /\ UNCHANGED <<reports, filters, downloads, exportResp, doc>>
  /\ UNCHANGED serverVars

\* .then((response) => setReports(response.data))
FetchArrive ==
  /\ client.fetch.pc = "answered"
  /\ reports' = client.fetch.data
  /\ client' = [client EXCEPT !.fetch.pc = "done"]
  /\ UNCHANGED <<filters, downloads, exportResp, doc>>
  /\ UNCHANGED serverVars

\* addReport: the POST is sent; the callback it registers holds the reports
\* of the render the button was pressed in.
AddReportSend(body) ==
  /\ client.fetch.pc # "none"
  /\ Len(client.posts) < MaxAdds
  /\ client' = [client EXCEPT !.posts =
                  Append(@, [pc |-> "sent", body |-> body,
                             captured |-> reports, record |-> <<>>])]
  /\ UNCHANGED <<reports, filters, downloads, exportResp, doc>>
  /\ UNCHANGED serverVars

\* The backend inserts the record of a POST and answers with the new row.
ServePost(i) ==
  /\ i \in 1..Len(client.posts)
  /\ client.posts[i].pc = "sent"
  /\ table' = InsertRow(table,
       StoredRow(InsertPayload(revision, client.posts[i].body), table))
  /\ client' = [client EXCEPT !.posts[i].pc = "answered",
                  !.posts[i].record =
                    StoredRow(InsertPayload(revision, client.posts[i].body),
                              table)]
  /\ UNCHANGED <<reports, filters, downloads, exportResp, doc>>
  /\ UNCHANGED <<now, salesData, scheduledReports, jobs, pending, firing,
                 outbox, lastResp, revision, apiResp, boots, browsers>>

\* .then((response) => setReports([...reports, response.data]))
AddReportArrive(i) ==
  /\ i \in 1..Len(client.posts)
  /\ client.posts[i].pc = "answered"
  /\ reports' = Append(client.posts[i].captured, client.posts[i].record)
  /\ client' = [client EXCEPT !.posts[i].pc = "done"]
  /\ UNCHANGED <<filters, downloads, exportResp, doc>>
  /\ UNCHANGED serverVars

\* The reports a user adds, every field filled.
AddBodies == {FullBody, [FullBody EXCEPT !.amount = StringAmount(<<"1", "2">>)],
              [FullBody EXCEPT !.category = "HR"]}

\* The page is not mounted yet; the backend is part_002 with an empty table.
InitPage ==
  /\ reports = <<>>
  /\ filters = EmptyFilters
  /\ downloads = 0
  /\ exportResp = [route |-> "none"]
  /\ now = 0
  /\ salesData = <<>>
  /\ scheduledReports = <<>>
  /\ jobs = <<>>
  /\ pending = {}
  /\ firing = <<>>
  /\ outbox = EmptyBag
  /\ lastResp = [status |-> 0]
  /\ revision = "part_002"
  /\ table = <<>>
  /\ apiResp = NoRequest
  /\ boots = 0
  /\ browsers = 0
  /\ client = IdlePage
  /\ doc = NoDoc

\* The requests of the page and their answers, in every order.
NextPage ==
  \/ PageMount
  \/ ServeFetch
  \/ FetchArrive
  \/ \E body \in AddBodies : AddReportSend(body)
  \/ \E i \in 1..MaxAdds : ServePost(i)
  \/ \E i \in 1..MaxAdds : AddReportArrive(i)

SpecPage == InitPage /\ [][NextPage]_vars

-----------------------------------------------------------------------------
(* Backend: the origin callback of the cors middleware *)

\* An origin is the text of the Origin header, cut into a scheme, a host and
\* what a client may put after the host; no header is the empty text, which
\* !origin takes as no origin too.
NoOrigin == <<>>

Schemes == {"http://", "https://"}

OtherScheme(scheme) == IF scheme = "http://" THEN "https://" ELSE "http://"

\* const allowedOrigins = [...]
AllowedOrigins(rev) ==
  CASE rev = "part_000" ->
         {<<"http://", "localhost:5173">>, <<"http://", "localhost:3000">>,
          <<"https://", "reportifynow.netlify.app">>,
          <<"https://", "reportifynowfrontend.netlify.app">>}
    [] rev = "part_002" ->
         {<<"http://", "localhost:5173">>, <<"http://", "localhost:3000">>,
          <<"https://", "reportifynow.netlify.app">>}
    [] rev = Insight360 ->
         {<<"https://", "insight360-frontend.vercel.app">>,
          <<"http://", "localhost:5173">>}

\* The revisions with an origin callback that serve requests; part_003 and
\* backend/index.js use cors() bare, and part_001 throws while it loads.
CorsRevisions == {"part_000", "part_002", Insight360}

ListedOrigins == UNION {AllowedOrigins(rev) : rev \in CorsRevisions}

\* The Origin headers tried: none, every listed origin, a listed origin
\* with a longer host or with the other scheme, and a foreign one.
Origins ==
  {NoOrigin, <<"https://", "evil.example">>}
  \cup ListedOrigins
  \cup {Append(o, ".evil.example") : o \in ListedOrigins}
  \cup {<<OtherScheme(o[1]), o[2]>> : o \in ListedOrigins}

\* url.replace(/^https?:\/\/([^\/]+).*$/, '$1'): the host and what follows
\* it up to a slash; a text without a scheme is left as it is.
GetDomain(url) ==
  IF url # <<>> /\ Head(url) \in Schemes /\ Len(url) > 1
    THEN Tail(url) ELSE url

\* The test of the origin callback.
OriginAllowed(rev, origin) ==
  \/ origin = NoOrigin
  \/ CASE rev = "part_000" ->
            \E allowed \in AllowedOrigins(rev) : Includes(origin, allowed)
       [] rev = "part_002" ->
            \E allowed \in AllowedOrigins(rev) :
              GetDomain(origin) = GetDomain(allowed)
       [] rev = Insight360 -> origin \in AllowedOrigins(rev)

\* The cors middleware calls the origin callback with the Origin header of
\* the request.
CorsCheck(origin) ==
  /\ revision \in CorsRevisions
  /\ apiResp.seq < MaxRequests
  /\ apiResp' = [route |-> "cors", seq |-> apiResp.seq + 1,
                 origin |-> origin,
                 admitted |-> OriginAllowed(revision, origin)]
  /\ UNCHANGED <<revision, table, boots>>
  /\ UNCHANGED <<reports, filters, downloads, exportResp, client, doc>>
  /\ UNCHANGED browsers
  /\ UNCHANGED <<now, salesData, scheduledReports, jobs, pending, firing,
                 outbox, lastResp>>

InitCors ==
  /\ reports = <<>>
  /\ filters = EmptyFilters
  /\ downloads = 0
  /\ exportResp = [route |-> "none"]
  /\ now = 0
  /\ salesData = <<>>
  /\ scheduledReports = <<>>
  /\ jobs = <<>>
  /\ pending = {}
  /\ firing = <<>>
  /\ outbox = EmptyBag
  /\ lastResp = [status |-> 0]
  /\ revision \in CorsRevisions
  /\ table = <<>>
  /\ apiResp = NoRequest
  /\ boots = 0
  /\ browsers = 0
  /\ client = IdlePage
  /\ doc = NoDoc

NextCors == \E origin \in Origins : CorsCheck(origin)

SpecCors == InitCors /\ [][NextCors]_vars

-----------------------------------------------------------------------------
(* Backend: the method test of the serverless handlers *)

Methods == {"GET", "POST", "PUT", "DELETE"}

\* The methods a serverless handler has a branch for.
HandledMethods(rev) ==
  IF rev = "part_004 reports handler" THEN {"GET", "POST"} ELSE {"POST"}

\* A handler without a method test: the request is taken for a POST.
TakenForPost(method) ==
  Respond(method, NoBody, "none", 200, "record", <<>>, 1, 1)

\* res.status(405).json({ error: "Method not allowed" })
MethodNotAllowed(method) ==
  Respond(method, NoBody, "none", 405, "error", <<>>, 0, 0)

\* A request of a method the handler has no branch for: it is answered
\* before the store or the transport is touched.
OtherMethod(method) ==
  /\ revision \in BareHandlers
  /\ apiResp.seq < MaxRequests
  /\ method \notin HandledMethods(revision)
  /\ apiResp' = MethodNotAllowed(method)
  /\ UNCHANGED <<revision, table, boots>>
  /\ UNCHANGED <<reports, filters, downloads, exportResp, client, doc>>
  /\ UNCHANGED browsers
  /\ UNCHANGED <<now, salesData, scheduledReports, jobs, pending, firing,
                 outbox, lastResp>>

InitServerless ==
  /\ reports = <<>>
  /\ filters = EmptyFilters
  /\ downloads = 0
  /\ exportResp = [route |-> "none"]
  /\ now = 0
  /\ salesData = <<>>
  /\ scheduledReports = <<>>
  /\ jobs = <<>>
  /\ pending = {}
  /\ firing = <<>>
  /\ outbox = EmptyBag
  /\ lastResp = [status |-> 0]
  /\ revision \in BareHandlers
  /\ table = <<>>
  /\ apiResp = NoRequest
  /\ boots = 0
  /\ browsers = 0
  /\ client = IdlePage
  /\ doc = NoDoc

\* The requests a serverless handler is invoked with, of every method.
NextServerless ==
  \/ \E o \in SelectOutcomes : GetReports(o)
  \/ \E body \in ReportBodies : \E o \in InsertOutcomes : PostReports(body, o)
  \/ \E body \in DispatchBodies : \E o \in TransportOutcomes :
       ScheduleReport(body, o)
  \/ \E method \in Methods : OtherMethod(method)

SpecServerless == InitServerless /\ [][NextServerless]_vars

-----------------------------------------------------------------------------
(* The whole system over a restart of the backend process *)

MaxBoots == 1

\* A startup that arms a timer for every row of scheduled_reports.
RestartResumes ==
  /\ boots < MaxBoots
  /\ boots' = boots + 1
  /\ jobs' = [i \in 1..Len(scheduledReports) |->
                [email |-> scheduledReports[i].email,
                 frequency |-> scheduledReports[i].frequency,
                 filters |-> scheduledReports[i].report_config.filters,
                 next |-> CronNext(scheduledReports[i].frequency, now),
                 rowsAtSchedule |-> Len(salesData)]]
  /\ firing' = [i \in 1..Len(scheduledReports) |-> IdleFiring]
  /\ pending' = {}
  /\ UNCHANGED <<reports, filters, downloads, exportResp, client, doc>>
  /\ UNCHANGED browsers
  /\ UNCHANGED <<now, salesData, scheduledReports, outbox, lastResp,
                 revision, table, apiResp>>

\* The process exits and starts again: the node-schedule jobs and the
\* handlers in flight are gone with its memory, the tables and the mails
\* already sent are not; startup reads nothing from scheduled_reports.
Restart ==
  /\ boots < MaxBoots
  /\ boots' = boots + 1
  /\ jobs' = <<>>
  /\ firing' = <<>>
  /\ pending' = {}
  /\ UNCHANGED <<reports, filters, downloads, exportResp, client, doc>>
  /\ UNCHANGED browsers
  /\ UNCHANGED <<now, salesData, scheduledReports, outbox, lastResp,
                 revision, table, apiResp>>

\* The bodies tried where every operation of the system takes turns.
SystemScheduleBody ==
  [email |-> ValidEmail, frequency |-> EverySecond,
   reportConfig |-> RegionConfig]

SystemDataBody ==
  [startDate |-> "2025-05-02", endDate |-> "2025-06-01", userId |-> "",
   region |-> "North"]

SystemDispatchBody ==
  [present |-> TRUE, email |-> ValidEmail,
   reportData |-> [kind |-> "array", rows |-> <<"North">>]]

\* Every operation of the deployed revision: the reports API and the
\* dispatcher of Reportify; the data query, the export, the schedule manager
\* with its firings of Insight360; and the restart of the process.
NextSystem ==
  \/ \E o \in SelectOutcomes : GetReports(o)
  \/ \E body \in {FullBody, [FullBody EXCEPT !.date = Undefined]} :
       \E o \in InsertOutcomes : PostReports(body, o)
  \/ \E o \in TransportOutcomes : ScheduleReport(SystemDispatchBody, o)
  \/ \E o \in {"rows", "error"} : PostData(SystemDataBody, o)
  \/ revision = Insight360
       /\ ExportExcel([kind |-> "array", rows |-> <<"North">>], FALSE)
  \/ revision = Insight360 /\ ScheduleRequest(SystemScheduleBody)
  \/ \E p \in pending : \E dbError \in BOOLEAN : ScheduleInsertDone(p, dbError)
  \/ revision = Insight360 /\ Tick
  \/ \E j \in 1..MaxJobs : FireStart(j)
  \/ \E j \in 1..MaxJobs : \E e \in BOOLEAN : FireFetch(j, e)
  \/ \E j \in 1..MaxJobs : \E o \in FiringOutcomes : FireDeliver(j, o)
  \/ Restart

SpecSystem == InitApi /\ [][NextSystem]_vars

-----------------------------------------------------------------------------
(* Claims about the reports API and the dispatcher *)

\* The body does not carry one of the five fields.
LacksAField(body) ==
  \/ \E f \in ReportFields : body[f] = Undefined
  \/ body.amount.kind = "undefined"

\* C11: in every revision, POST /api/reports with a body that lacks one of
\* date, category, amount, user and region is answered 400, and no insert
\* is issued to the store.
C11_MissingFieldIs400 ==
  (apiResp.route = "POST /api/reports" /\ LacksAField(apiResp.body))
    => (apiResp.status = 400 /\ apiResp.inserts = 0)

\* C12: in every revision, GET /api/reports answers 200 with a JSON array
\* whenever the store query reports no error (the empty array for no rows or
\* null data), and answers 500 only when the store query fails.
C12_ListIs200UnlessStoreFails ==
  apiResp.route = "GET /api/reports" =>
    /\ apiResp.outcome \in {"rows", "null"} =>
         /\ apiResp.status = 200
         /\ apiResp.payload.kind = "array"
         /\ apiResp.outcome = "null" => apiResp.payload.rows = <<>>
    /\ apiResp.status = 500 => apiResp.outcome \in {"error", "throws"}

\* The stored amount is the amount the body carried.
IsSubmittedAmount(stored, a) ==
  \/ a.kind = "number" /\ stored = a.num
  \/ /\ a.kind = "string" /\ a.text # <<>>
     /\ \A i \in 1..Len(a.text) : a.text[i] \in Digits
     /\ stored = LeadingNumber(a.text, 0)

\* C13: after a POST /api/reports with all five fields succeeds, its
\* response carries the created record with a store-assigned identifier,
\* and every later GET /api/reports includes a record with that identifier
\* and the submitted date, category, amount, user and region: the created
\* record is the submitted data in the table, rows of the table never change
\* or go away, and a list that the store answers is the table.
C13_CreatedRecordIsListed ==
  /\ [](/\ (apiResp.route = "POST /api/reports"
              /\ apiResp.status \in {200, 201}) =>
             /\ apiResp.payload.kind = "record"
             /\ LET row == apiResp.payload.rows[1] IN
                  /\ row.id \in 1..Len(table) /\ table[row.id] = row
                  /\ row.date = apiResp.body.date
                  /\ row.category = apiResp.body.category
                  /\ row.user = apiResp.body.user
                  /\ row.region = apiResp.body.region
                  /\ IsSubmittedAmount(row.amount, apiResp.body.amount)
        /\ (apiResp.route = "GET /api/reports" /\ apiResp.outcome = "rows")
             => (apiResp.status = 200 /\ apiResp.payload.rows = table))
  /\ [][/\ Len(table') >= Len(table)
        /\ \A i \in 1..Len(table) : table'[i] = table[i]]_vars

\* The store or the transport failed under the request.
CallFailed(resp) ==
  resp.outcome \in {"error", "throws", "rejected"}
    /\ (resp.inserts > 0 \/ resp.sends > 0 \/ resp.route = "GET /api/reports")

\* C14: in every revision and for every outcome of the store and transport
\* calls, each handler sends exactly one response, a failure becomes a JSON
\* error envelope with a 4xx or 5xx status, and no exception escapes.
C14_OneResponsePerRequest ==
  apiResp.route # "none" =>
    /\ apiResp.responses = 1
    /\ ~apiResp.escaped
    /\ CallFailed(apiResp) =>
         (apiResp.status >= 400 /\ apiResp.payload.kind = "error")

\* C15: in every revision of POST /api/schedule-report, a request that
\* passes validation causes exactly one send attempt; the answer is 200 if
\* the transport accepts the message and 500 if it does not.
C15_OneSendPerValidRequest ==
  (apiResp.route = "POST /api/schedule-report" /\ apiResp.body.present
     /\ ~DispatchInvalid(revision, apiResp.body)) =>
    /\ apiResp.sends = 1
    /\ apiResp.status = IF apiResp.outcome = "accepted" THEN 200 ELSE 500

\* C16: in every revision of POST /api/schedule-report, a request whose
\* email is missing or no email address, or whose reportData is missing or
\* an empty list, is answered 400 and no send is attempted.
C16_BadDispatchIs400 ==
  (apiResp.route = "POST /api/schedule-report" /\ apiResp.body.present
     /\ \/ ~EmailRegexTest(apiResp.body.email)
        \/ apiResp.body.reportData.kind = "undefined"
        \/ (apiResp.body.reportData.kind = "array"
              /\ apiResp.body.reportData.rows = <<>>)) =>
    (apiResp.status = 400 /\ apiResp.sends = 0)

-----------------------------------------------------------------------------
(* Claims about the lifetime of timers and of records *)

\* C17: within one process lifetime the armed timers only grow: no request,
\* no firing outcome and no other step cancels or deregisters a timer that
\* POST /api/schedule armed; each stays the timer of the same recipient,
\* rule and criteria, with a next invocation that only moves forward.
C17_TimersOnlyGrow ==
  [][/\ Len(jobs') >= Len(jobs)
     /\ \A j \in 1..Len(jobs) :
          /\ jobs'[j].email = jobs[j].email
          /\ jobs'[j].frequency = jobs[j].frequency
          /\ jobs'[j].filters = jobs[j].filters
          /\ jobs'[j].next >= jobs[j].next]_vars

\* A timer is still armed after its request was answered 500 and after a
\* firing of it ended in the catch block.
C17_Witness ==
  /\ Len(jobs) = 1
  /\ lastResp.status = 500
  /\ firing[1].pc = "failed"
  /\ jobs[1].next > now

\* A request to POST /api/reports was answered with the created record.
Created(resp) ==
  resp.route = "POST /api/reports" /\ resp.status \in {200, 201}

\* C18: report records are never updated or deleted: every operation other
\* than a successful POST /api/reports (list, data query, export, schedule,
\* dispatch, firing, restart) leaves the stored records as they are, and a
\* successful POST adds exactly one record and changes no other.
C18_RecordsOnlyAdded ==
  [][/\ salesData' = salesData
     /\ table' # table =>
          /\ apiResp'.seq = apiResp.seq + 1
          /\ Created(apiResp')
     /\ (apiResp'.seq = apiResp.seq + 1 /\ Created(apiResp')) =>
          /\ Len(table') = Len(table) + 1
          /\ \A i \in 1..Len(table) : table'[i] = table[i]
          /\ table'[Len(table')] = apiResp'.payload.rows[1]]_vars

\* Two records were created and a mail was dispatched since.
C18_Witness ==
  /\ Len(table) = 2
  /\ table[1].id # table[2].id
  /\ apiResp.route = "POST /api/schedule-report"
  /\ apiResp.sends = 1

\* C19: after a restart no job scheduled before it fires again, although its
\* log row remains in scheduled_reports: the restart leaves no timer and
\* keeps every row, a timer is armed only by a request handler, and only an
\* armed timer fires.
C19_RestartDropsTimers ==
  /\ [][/\ boots' # boots =>
             /\ jobs' = <<>>
             /\ firing' = <<>>
             /\ scheduledReports' = scheduledReports
        /\ Len(jobs') > Len(jobs) =>
             /\ boots' = boots
             /\ \E p \in pending' : p \notin pending /\ p.job = Len(jobs')]_vars
  /\ [](\A j \in 1..MaxJobs : j > Len(jobs) => ~ENABLED FireStart(j))

\* After a restart: the row of a job is in scheduled_reports, the time of
\* its next_run has passed, no timer is armed and no mail was sent.
C19_Witness ==
  /\ boots = 1
  /\ jobs = <<>>
  /\ Len(scheduledReports) = 1
  /\ now > scheduledReports[1].next_run
  /\ outbox = EmptyBag

\* The criteria are the filters object of the client: start and end date,
\* userId and region.
ClientCriteria(f) ==
  {kv[1] : kv \in f} = {"startDate", "endDate", "userId", "region"}

\* The body the client posts to /api/data for the same criteria.
DataBodyOf(f) ==
  [startDate |-> Lookup(f, "startDate"), endDate |-> Lookup(f, "endDate"),
   userId |-> Lookup(f, "userId"), region |-> Lookup(f, "region")]

\* C20: the records a firing renders are the records POST /api/data returns
\* at that moment for the criteria the client sent with the schedule
\* request: when the store answers the query of such a firing, the firing
\* goes on to render exactly those records.
C20_FiringMatchesDataQuery ==
  [][\A j \in 1..Len(jobs) :
       (ClientCriteria(jobs[j].filters) /\ FireFetch(j, FALSE)) =>
         /\ firing'[j].pc = "render"
         /\ firing'[j].data = DataQuery(DataBodyOf(jobs[j].filters),
                                        salesData)]_vars

-----------------------------------------------------------------------------
(* Claims about firings, the data query and the schedule log *)

\* C21: a firing whose query returns zero records does not render and mail
\* a zero-row PDF: no mail of a firing carries a report without rows.
C21_NoEmptyReportMailed ==
  \A m \in BagToSet(outbox) : m.rows > 0

\* The row is one the body of POST /api/data asks for.
AskedFor(row, body) ==
  /\ DateOrdinal(body.startDate) <= DateOrdinal(row.date)
  /\ DateOrdinal(row.date) <= DateOrdinal(body.endDate)
  /\ body.userId # "" => row.user_id = UserIdOf(body.userId)
  /\ body.region # "" => row.region = body.region

\* C22: POST /api/data answers 400 when startDate or endDate is missing, and
\* otherwise, when the store answers, returns exactly the stored records
\* whose date lies in [startDate, endDate] and whose user_id and region equal
\* the userId and region of the body where those are not empty.
C22_DataQueryIsRangeFilter ==
  apiResp.route = "POST /api/data" =>
    IF apiResp.body.startDate = Undefined \/ apiResp.body.endDate = Undefined
      THEN apiResp.status = 400
      ELSE apiResp.outcome = "rows" =>
             /\ apiResp.status = 200
             /\ IsSubSeq(apiResp.payload.rows, salesData)
             /\ \A i \in 1..Len(salesData) :
                  AskedFor(salesData[i], apiResp.body) <=>
                    \E k \in 1..Len(apiResp.payload.rows) :
                      apiResp.payload.rows[k] = salesData[i]

\* A query whose range ends on the date of the rows and whose region keeps
\* one of the two rows.
C22_Witness ==
  /\ apiResp.route = "POST /api/data"
  /\ apiResp.status = 200
  /\ apiResp.body.region = "North"
  /\ apiResp.body.userId = "1"
  /\ Len(apiResp.payload.rows) = 1
  /\ apiResp.payload.rows[1].date = apiResp.body.endDate

\* C25: the next_run persisted in the log row of a schedule request equals
\* the nextRun of the request's response, however the timer of the job and
\* the insert of the handler interleave.
C25_LoggedNextRunIsAnswered ==
  lastResp.status = 200 =>
    scheduledReports[Len(scheduledReports)].next_run = lastResp.nextRun

\* A field of the body is absent or empty.
AbsentOrEmpty(body) ==
  \/ \E f \in ReportFields : body[f] \in {Undefined, ""}
  \/ body.amount.kind \in {"undefined", "null"}
  \/ body.amount.kind = "string" /\ body.amount.text = <<>>

\* C28: POST /api/reports answers 400 only when a field is absent or empty:
\* a request with all five fields and a numeric amount that is not negative,
\* 0 included, is forwarded to the store as an insert.
C28_ZeroAmountIsInserted ==
  apiResp.route = "POST /api/reports" =>
    /\ apiResp.status = 400 => AbsentOrEmpty(apiResp.body)
    /\ (~AbsentOrEmpty(apiResp.body) /\ apiResp.body.amount.kind = "number")
         => apiResp.inserts = 1

\* The pages of a saved document but the last one.
FullPages == 1..(Len(doc.pages) - 1)

\* C23: in the PDF of the frontend no record line is drawn below y = 280, a
\* page is added only when the first page is full, and every page before the
\* last holds as many record lines as the first page: the records after a
\* page break continue down the new page.
C23_RecordsContinueDownThePage ==
  doc.saved =>
    /\ \A p \in 1..Len(doc.pages) : \A k \in 1..Len(doc.pages[p]) :
         doc.pages[p][k].y <= PageThreshold
    /\ Len(doc.pages) > 1 =>
         YPosition(Len(doc.pages[1])) > PageThreshold
    /\ \A p \in FullPages : Len(doc.pages[p]) = Len(doc.pages[1])

\* C30: a serverless handler answers a method it has no branch for with 405
\* and nothing else: no insert, no send, no row read from the store, and the
\* reports table and the mails are as they were.
C30_OtherMethodsAre405 ==
  /\ [](apiResp.route \in Methods =>
         /\ apiResp.status = 405 /\ apiResp.responses = 1
         /\ apiResp.inserts = 0 /\ apiResp.sends = 0
         /\ apiResp.payload = [kind |-> "error", rows |-> <<>>])
  /\ [][\A method \in Methods :
          OtherMethod(method) => table' = table /\ outbox' = outbox]_vars

\* The reports handler answered a PUT with 405 after it had created a row.
C30_Witness ==
  /\ revision = "part_004 reports handler"
  /\ apiResp.route = "PUT" /\ apiResp.status = 405
  /\ table # <<>>

\* C29: the origin callback admits a request that carries an Origin header
\* only if the origin is an entry of allowedOrigins, and always admits a
\* request without the header.
C29_AdmittedOriginIsListed ==
  apiResp.route = "cors" =>
    /\ apiResp.origin = NoOrigin => apiResp.admitted
    /\ (apiResp.origin # NoOrigin /\ apiResp.admitted) =>
         apiResp.origin \in AllowedOrigins(revision)

\* The columns of the tabular spreadsheet, in their order.
FixedColumns == <<"DATE", "CATEGORY", "AMOUNT">>

\* C24: the worksheet of n >= 1 records has one header row of the column
\* names in upper case, the same columns in the same order whatever the
\* keys of the first record, and n data rows, the i-th made of the values
\* of the i-th record.
C24_SheetHasFixedColumns ==
  exportResp.route = "excel" =>
    /\ exportResp.sheet.header = FixedColumns
    /\ Len(exportResp.sheet.rows) = Len(exportResp.data)
    /\ \A i \in 1..Len(exportResp.data) :
         \A c \in 1..Len(FixedColumns) :
           HasKey(exportResp.data[i], exportResp.sheet.rows[i][c].key) \/
             exportResp.sheet.rows[i][c] = EmptyCell

\* C26: no headless browser is left open once the export request or the
\* firing that launched it has ended.
C26_NoBrowserLeftOpen == browsers = 0

\* Every request of the page was answered and its answer was handled.
AllArrived ==
  /\ client.fetch.pc = "done"
  /\ \A i \in 1..Len(client.posts) : client.posts[i].pc = "done"

\* C27: once every response has arrived, the reports of the page hold every
\* record the backend created for an addReport call.
C27_NoAddedReportIsLost ==
  AllArrived =>
    \A i \in 1..Len(client.posts) :
      \E k \in 1..Len(reports) : reports[k] = client.posts[i].record

====
